---- MODULE Spec2Model ----
(***************************************************************************)
(* A model of the teldrive uploader (src/main.go): main, the chunked       *)
(* upload orchestrator Uploader.uploadFile with its closer goroutine and   *)
(* its part-upload goroutines, the paced control-plane calls and the       *)
(* directory walker Uploader.uploadFilesInDirectory.                       *)
(***************************************************************************)
EXTENDS Integers, Sequences, FiniteSets, TLC

(* ------------------------------ bounds -------------------------------- *)
MaxFileSize == 3
MaxPartSize == 2
MaxWorkers == 2
MaxRetries == 1
MaxRequests == 3

(* --------------------------- the local tree --------------------------- *)
\* File ids.  In file mode main uploads file 1; in directory mode the
\* tree is  /a (file 1), /d (directory), /d/a (file 2), /e (file 3).
Files == 1..3
PartNos == 1..MaxFileSize
Dirs == {"/", "/d"}

FileName(f) == IF f = 3 THEN "e" ELSE "a"
FileDir(f) == IF f = 2 THEN "/d" ELSE "/"

\* os.ReadDir returns the entries sorted by file name.
ReadDir(dir) ==
    IF dir = "/"
    THEN << [name |-> "a", isDir |-> FALSE, id |-> 1, sub |-> ""],
            [name |-> "d", isDir |-> TRUE, id |-> 0, sub |-> "/d"],
            [name |-> "e", isDir |-> FALSE, id |-> 3, sub |-> ""] >>
    ELSE << [name |-> "a", isDir |-> FALSE, id |-> 2, sub |-> ""] >>

VARIABLES
    partSize,           \* Uploader.partSize
    numWorkers,         \* Uploader.numWorkers
    mode,               \* "file": -path names a file; "dir": a directory
    fileSize,           \* fileSize[f]: size of local file f
    remote,             \* remote[dir]: names the backend lists in dir
    run,                \* 1 for the first process run, 2 for a second run
    prev,               \* how the first run ended, "none" during it
    mpc,                \* main's position
    stack,              \* the frames of uploadFilesInDirectory
    cur,                \* the file uploadFile is running for, 0 if none
    upc,                \* uploadFile's position
    i,                  \* uploadFile's loop variable i
    numParts,           \* numParts[f]
    parts,              \* uploadFile's slice parts ([]Part, by PartNo)
    attempts,           \* retries made by the paced call in progress
    concurrentWorkers,  \* concurrentWorkers[f]: slots taken in the channel
    wg,                 \* wg[f]: the WaitGroup's counter
    uploadedParts,      \* uploadedParts[f]: the buffered result channel
    closed,             \* closed[f]: uploadedParts was closed
    cpc,                \* cpc[f]: the closer goroutine's position
    tpc,                \* tpc[f][p]: the position of the goroutine of part p
    rng,                \* rng[f][p]: <<start, end>> passed to the goroutine
    part,               \* part[f][p]: PartNo decoded from the response, until sent
    partReq,            \* partReq[f][p]: upload requests issued for part p
    answer,             \* answer[f][p]: "none", "failed" (no HTTP 200), "own"
                        \* (200 with the part's own PartNo) or "other"
    finLog,             \* payloads of the finalize requests the call has sent
    delReq,             \* delete-session requests the call has sent
    ret,                \* how the call returns, "none" until it does
    hist,               \* hist[f]: "none", "called" (uploadFile was called
                        \* for f) or "finalized" (its finalize succeeded)
    listing,            \* listing[dir]: <<names>> fetched by list, or <<>>
    crashed,            \* "no", "panic" (a goroutine panicked on its send, or
                        \* make on a negative size), "nilptr" (a nil pointer
                        \* was dereferenced), "fatal" (Fatalln)
    env,                \* the values of PART_SIZE and WORKERS in upload.env
    ctxDone,            \* Uploader.ctx is done
    calls,              \* the attempts createRemoteDir's paced call has made:
                        \* the status of each and whether ctx was done then
    pres,               \* what createRemoteDir returned: "none", "nil", "err"
    made,               \* the remote directories whose create request succeeded
    uploadURL,          \* uploadURL[f]: uploadFile's session path, << >> if unset
    urls,               \* urls[f]: the upload and delete-session requests
                        \* issued for f, each with its path
    sizeStr,            \* the PART_SIZE string handed to fileSizeToBytes
    parsed,             \* the results of the calls of fileSizeToBytes(sizeStr)
    build,              \* the architecture the program is built for
    lpc,                \* the position of Uploader.list: "idle", "call",
                        \* "got", "ret"
    info,               \* what readMetaDataForPath returned to list
    nextPageToken,      \* list's variable nextPageToken
    acc,                \* list's result variable files
    reqs,               \* the list requests issued, each attempt
    lret,               \* what list returned: [files, err]
    listErr             \* the directories whose listing could not be fetched

vars == << partSize, numWorkers, mode, fileSize, remote, run, prev, mpc, stack, cur,
           upc, i, numParts, parts, attempts, concurrentWorkers, wg,
           uploadedParts, closed, cpc, tpc, rng, part, partReq, answer,
           finLog, delReq, ret, hist, listing, crashed, env, ctxDone, calls,
           pres, made, uploadURL, urls, sizeStr, parsed, build, lpc,
           info,
           nextPageToken, acc, reqs, lret, listErr >>

ctl == << env, ctxDone, calls, pres >>
parser == << sizeStr, parsed, build >>
lister == << lpc, info, nextPageToken, acc, reqs, lret, listErr >>
config == << partSize, numWorkers, mode, fileSize, prev >>
coord == << cur, upc, i, numParts, parts >>
sync == << concurrentWorkers, wg, uploadedParts, closed, cpc >>
tasks == << tpc, rng, part, partReq, answer >>
walk == << mpc, stack, listing >>

(* ------------------------- pure functions ----------------------------- *)
\* main.go 183-186: integer division, one more part when there is a rest.
NumPartsNoRest(size, psize) == size \div psize
NumParts(size, psize) ==
    IF size % psize # 0 THEN (size \div psize) + 1 ELSE size \div psize

\* main.go 216-220: the byte range of the part with loop index k.
PartRangeNoClamp(k, size, psize) == << k * psize, k * psize + psize >>
PartRange(k, size, psize) ==
    LET start == k * psize
        end == start + psize
    IN << start, IF end > size THEN size ELSE end >>

\* main.go 294-296: sort.Slice by PartNo.
RECURSIVE Insert(_, _)
Insert(x, s) ==
    IF s = << >> THEN << x >>
    ELSE IF x < Head(s) THEN << x >> \o s
    ELSE << Head(s) >> \o Insert(x, Tail(s))
RECURSIVE SortByPartNo(_)
Unsorted(s) == s
SortByPartNo(s) ==
    IF s = << >> THEN << >> ELSE Insert(Head(s), SortByPartNo(Tail(s)))

\* main.go 290: the completeness check.
AlwaysComplete(ps, n) == TRUE
NotTooMany(ps, n) == Len(ps) <= n
Complete(ps, n) == Len(ps) = n

\* main.go 108-122: shouldRetry's first result.  A done context never
\* retries; otherwise a transient network error (status 0) and the
\* statuses of retryErrorCodes retry.
retryErrorCodes == {429, 500, 502, 503, 504, 509}
RetryAnyError(done, status) == ~done /\ (status < 200 \/ status > 299)
RetryDoneContext(done, status) == status = 0 \/ status \in retryErrorCodes
shouldRetry(done, status) == ~done /\ (status = 0 \/ status \in retryErrorCodes)
\* The outcomes of one attempt of a control-plane request: the status of
\* the response, or no response at all: a transient network error (0) or
\* a connection failure that is not transient (-1).
CtlStatuses == {0 - 1, 0, 200, 400, 401, 404, 429, 500, 502, 503, 504, 509}
\* rest.go 272-275: without a response CallJSON returns a nil *http.Response.
NoResponse(status) == status <= 0

\* main.go 423-430
NeverExists(name, files) == FALSE
checkFileExists(name, files) == \E item \in files : item = name

(* --------------------------- the size parser -------------------------- *)
\* An earlier revision of main.go (unnamed/part_003) parses PART_SIZE with
\* fileSizeToBytes.  A string is the sequence of its characters.
DigitChars == << "0", "1", "2", "3", "4", "5", "6", "7", "8", "9" >>
IsDigit(c) == \E d \in 1..10 : DigitChars[d] = c
DigitOf(c) == (CHOOSE d \in 1..10 : DigitChars[d] = c) - 1

\* strings.ToLower on the letters the inputs hold.
ToLowerChar(c) ==
    CASE c = "K" -> "k" [] c = "M" -> "m" [] c = "G" -> "g" [] c = "T" -> "t"
      [] c = "B" -> "b" [] c = "Y" -> "y" [] c = "E" -> "e" [] c = "S" -> "s"
      [] OTHER -> c
ToLower(str) == [k \in 1..Len(str) |-> ToLowerChar(str[k])]

RECURSIVE DigitRun(_, _)
DigitRun(str, k) ==
    IF k <= Len(str) /\ IsDigit(str[k]) THEN 1 + DigitRun(str, k + 1) ELSE 0
RECURSIVE SpaceRun(_, _)
SpaceRun(str, k) ==
    IF k <= Len(str) /\ str[k] = " " THEN 1 + SpaceRun(str, k + 1) ELSE 0

\* part_003 29: (?i)^(\d+(\.\d+)?)\s*([KMGT]B|bytes?)$ on a lowercased
\* string; FindStringSubmatch gives the four groups, or nothing.
RegexUnits == {<< "k", "b" >>, << "m", "b" >>, << "g", "b" >>, << "t", "b" >>,
               << "b", "y", "t", "e" >>, << "b", "y", "t", "e", "s" >>}
sizeRegex(str) ==
    LET n1 == DigitRun(str, 1)
        frac == /\ n1 + 1 <= Len(str) /\ str[n1 + 1] = "."
                /\ DigitRun(str, n1 + 2) > 0
        n2 == IF frac THEN DigitRun(str, n1 + 2) ELSE 0
        numEnd == IF frac THEN n1 + 1 + n2 ELSE n1
        unit == SubSeq(str, numEnd + SpaceRun(str, numEnd + 1) + 1, Len(str))
    IN IF n1 > 0 /\ unit \in RegexUnits
       THEN << str, SubSeq(str, 1, numEnd), SubSeq(str, n1 + 1, numEnd), unit >>
       ELSE << >>

RECURSIVE Pow10(_)
Pow10(k) == IF k = 0 THEN 1 ELSE 10 * Pow10(k - 1)

\* The numbers fileSizeToBytes computes with exceed what one integer of the
\* model holds: a natural number is the sequence of its Limbs digits to the
\* base Base, the lowest first.
Base == 1048576
Limbs == 5
BigZero == [k \in 1..Limbs |-> 0]

\* x * m + c for m and c below 2^11
RECURSIVE BigMulAdd(_, _, _)
BigMulAdd(x, m, c) ==
    IF x = << >> THEN << >>
    ELSE << (Head(x) * m + c) % Base >>
            \o BigMulAdd(Tail(x), m, (Head(x) * m + c) \div Base)

\* x \div d with the rest, for d below 2^11
RECURSIVE BigDivRem(_, _)
BigDivRem(x, d) ==
    IF x = << >> THEN [q |-> << >>, r |-> 0]
    ELSE LET hi == BigDivRem(Tail(x), d)
             low == hi.r * Base + Head(x)
         IN [q |-> << low \div d >> \o hi.q, r |-> low % d]

RECURSIVE BigFromDigits(_)
BigFromDigits(str) ==
    IF str = << >> THEN BigZero
    ELSE BigMulAdd(BigFromDigits(SubSeq(str, 1, Len(str) - 1)), 10, DigitOf(str[Len(str)]))

RECURSIVE BigProduct(_, _)
BigProduct(x, factors) ==
    IF factors = << >> THEN x
    ELSE BigProduct(BigMulAdd(x, Head(factors), 0), Tail(factors))

\* part_003 77-86: the factors size is multiplied with, in the order of
\* the expression; none for the default case.
UnitFactors(unit) ==
    CASE unit \in {<< "k", "b" >>, << "k", "i", "l", "o", "b", "y", "t", "e" >>,
                    << "k", "i", "l", "o", "b", "y", "t", "e", "s" >>} -> << 1024 >>
      [] unit \in {<< "m", "b" >>, << "m", "e", "g", "a", "b", "y", "t", "e" >>,
                    << "m", "e", "g", "a", "b", "y", "t", "e", "s" >>} -> << 1024, 1024 >>
      [] unit \in {<< "g", "b" >>, << "g", "i", "g", "a", "b", "y", "t", "e" >>,
                    << "g", "i", "g", "a", "b", "y", "t", "e", "s" >>} -> << 1000, 1024, 1024 >>
      [] OTHER -> << >>

\* An int64 value: its sign and its magnitude.  x is below 2^63 when its
\* digits from 2^63 on are zero (three limbs hold 60 bits).
MaxInt64 == [neg |-> FALSE, mag |-> << Base - 1, Base - 1, Base - 1, 7, 0 >>]
MinInt64 == [neg |-> TRUE, mag |-> << 0, 0, 0, 8, 0 >>]
InInt64(x) == x[4] < 8 /\ x[5] = 0

\* int64(f) for a float64 f >= 0 whose whole part is x: the conversion
\* truncates; a value int64 cannot hold gives a result that depends on the
\* implementation, the smallest int64 on amd64 (CVTTSD2SQ), the largest on
\* arm64 (FCVTZS).
Builds == {"amd64", "arm64"}
ToInt64(x, arch) ==
    IF InInt64(x) THEN [neg |-> FALSE, mag |-> x]
    ELSE IF arch = "amd64" THEN MinInt64 ELSE MaxInt64

\* part_003 72, 79-83: int64(size * factors) for size = ParseFloat(number),
\* number being digits, possibly a point and more digits.  The float64
\* product is exact for the numbers of the model as long as it is below
\* 2^63, and is 2^63 or more exactly when the product of the numbers is.
ScaleToInt(number, factors, arch) ==
    LET n1 == DigitRun(number, 1)
        fdigits == SubSeq(number, n1 + 2, Len(number))
        digits == SubSeq(number, 1, n1) \o fdigits
        product == BigProduct(BigFromDigits(digits), factors)
    IN ToInt64(BigDivRem(product, Pow10(Len(fdigits))).q, arch)

\* part_003 66-88
NoBytes == [neg |-> FALSE, mag |-> BigZero]
fileSizeToBytes(str, arch) ==
    LET match == sizeRegex(ToLower(str))
    IN IF Len(match) # 4 THEN [bytes |-> NoBytes, err |-> "invalid format"]
       ELSE IF UnitFactors(match[4]) = << >>
       THEN [bytes |-> NoBytes, err |-> "unsupported unit"]
       ELSE [bytes |-> ScaleToInt(match[2], UnitFactors(match[4]), arch), err |-> "none"]

\* The PART_SIZE strings of the model: a number, blanks, a unit, and
\* possibly more; the large numbers, around 2^63 divided by the unit, come
\* with the units alone.
NumberStrings == {<< "0" >>, << "1" >>, << "2" >>, << "0", "2" >>, << "1", ".", "5" >>,
                  << "0", ".", "2", "5" >>, << "1", "." >>, << ".", "5" >>, << >>,
                  << "-", "1" >>, << "1", ".", "5", ".", "5" >>}
LargeNumberStrings ==
    {<< "1", "2" >>,
     << "1", "0", "0" >>,
     << "8", "7", "9", "6", "0", "9", "3", "0", "2", "2" >>,
     << "8", "7", "9", "6", "0", "9", "3", "0", "2", "3" >>,
     << "8", "7", "9", "6", "0", "9", "3", "0", "2", "2", "2", "0", "7" >>,
     << "8", "7", "9", "6", "0", "9", "3", "0", "2", "2", "2", "0", "8" >>,
     << "9", "0", "0", "7", "1", "9", "9", "2", "5", "4", "7", "4", "0", "9", "9", "1" >>,
     << "9", "0", "0", "7", "1", "9", "9", "2", "5", "4", "7", "4", "0", "9", "9", "2" >>}
UnitStrings == 
    {<< "K", "B" >>, << "k", "b" >>, << "K", "b" >>, << "k", "B" >>,
     << "M", "B" >>, << "m", "b" >>, << "M", "b" >>, << "m", "B" >>,
     << "G", "B" >>, << "g", "b" >>, << "G", "b" >>, << "g", "B" >>,
     << "T", "B" >>, << "t", "b" >>, << "B" >>, << "b" >>,
     << "b", "y", "t", "e", "s" >>, << "b", "y", "t", "e" >>,
     << "B", "Y", "T", "E", "S" >>, << "B", "y", "t", "e", "s" >>,
     << "k", "i", "l", "o", "b", "y", "t", "e" >>,
     << "k", "i", "l", "o", "b", "y", "t", "e", "s" >>,
     << "m", "e", "g", "a", "b", "y", "t", "e" >>,
     << "m", "e", "g", "a", "b", "y", "t", "e", "s" >>,
     << "g", "i", "g", "a", "b", "y", "t", "e" >>,
     << "g", "i", "g", "a", "b", "y", "t", "e", "s" >>, << >>,
     << "x", "b" >>, << "k" >>}
PlainUnitStrings == {<< "K", "B" >>, << "k", "b" >>, << "M", "B" >>, << "m", "B" >>, << "G", "B" >>, << "G", "b" >>}
BlankStrings == {<< >>, << " " >>, << " ", " " >>}
SizeStrings ==
    {n \o b \o u \o t : n \in NumberStrings, b \in BlankStrings, u \in UnitStrings,
                        t \in {<< >>, << "x" >>}}
        \cup {n \o u : n \in LargeNumberStrings, u \in PlainUnitStrings}

(* ------------------------------ Init ---------------------------------- *)
\* A page of a listing as readMetaDataForPath returns it, or its error.
NoPage == [files |-> << >>, next |-> "", err |-> "none"]

\* No size is being parsed, no listing is being fetched.
NoParse == sizeStr = << >> /\ parsed = << >> /\ build = "amd64"
NoList ==
    /\ lpc = "idle"
    /\ info = NoPage
    /\ nextPageToken = ""
    /\ acc = << >>
    /\ reqs = << >>
    /\ lret = [files |-> << >>, err |-> "none"]
    /\ listErr = {}

InitProcess ==
    /\ stack = << >>
    /\ cur = 0
    /\ upc = "idle"
    /\ i = 0
    /\ numParts = [f \in Files |-> 0]
    /\ parts = << >>
    /\ attempts = 0
    /\ concurrentWorkers = [f \in Files |-> 0]
    /\ wg = [f \in Files |-> 0]
    /\ uploadedParts = [f \in Files |-> << >>]
    /\ closed = [f \in Files |-> FALSE]
    /\ cpc = [f \in Files |-> "none"]
    /\ tpc = [f \in Files |-> [p \in PartNos |-> "new"]]
    /\ rng = [f \in Files |-> [p \in PartNos |-> << 0, 0 >>]]
    /\ part = [f \in Files |-> [p \in PartNos |-> 0]]
    /\ partReq = [f \in Files |-> [p \in PartNos |-> 0]]
    /\ answer = [f \in Files |-> [p \in PartNos |-> "none"]]
    /\ finLog = << >>
    /\ delReq = 0
    /\ ret = "none"
    /\ hist = [f \in Files |-> "none"]
    /\ listing = [d \in Dirs |-> << >>]
    /\ crashed = "no"
    /\ ctxDone = FALSE
    /\ calls = << >>
    /\ pres = "none"
    /\ made = {}
    /\ uploadURL = [f \in Files |-> << >>]
    /\ urls = [f \in Files |-> {}]

\* -path names a single file (file 1), uploaded to the destination "/".
Init ==
    /\ partSize \in 1..MaxPartSize
    /\ numWorkers \in 1..MaxWorkers
    /\ env = [PART_SIZE |-> partSize, WORKERS |-> << numWorkers >>]
    /\ mode = "file"
    /\ \E s \in 0..MaxFileSize : fileSize = [f \in Files |-> IF f = 1 THEN s ELSE 0]
    /\ remote = [d \in Dirs |-> {}]
    /\ run = 1
    /\ prev = "none"
    /\ mpc = "mkdir"
    /\ InitProcess
    /\ NoParse
    /\ NoList

\* -path names the directory tree; some of its files may be listed already.
\* Each file of the tree is empty or holds exactly one part.
WalkSizes == {0, 1}

InitWalk ==
    /\ partSize = 1
    /\ numWorkers = 1
    /\ env = [PART_SIZE |-> partSize, WORKERS |-> << numWorkers >>]
    /\ mode = "dir"
    /\ fileSize \in [Files -> WalkSizes]
    /\ \E R \in SUBSET Files :
        remote = [d \in Dirs |-> {FileName(f) : f \in {g \in R : FileDir(g) = d}}]
    /\ run = 1
    /\ prev = "none"
    /\ mpc = "mkdir"
    /\ InitProcess
    /\ NoParse
    /\ NoList

Running == crashed = "no" /\ mpc # "complete"

(* ------------------------ paced control calls ------------------------- *)
\* fs.Pacer.Call around one CallJSON (main.go 318-321, 327-330, 353-356,
\* 382-385): the function handed to the pacer returns shouldRetry's
\* results, which decide between success, another attempt and a fatal
\* error.  The model lets a
\* call take MaxRetries retries.  With a done context shouldRetry hands
\* back an error for every attempt, also one that was answered with 2xx.
PacerOk(status) == ~ctxDone /\ status >= 200 /\ status <= 299
PacerRetry(status) ==
    ~PacerOk(status) /\ shouldRetry(ctxDone, status) /\ attempts < MaxRetries
PacerFatal(status) == ~PacerOk(status) /\ ~shouldRetry(ctxDone, status)
PacerStep(status) == PacerOk(status) \/ PacerRetry(status) \/ PacerFatal(status)

(* ------------------------- the configuration -------------------------- *)
\* main.go 45: WORKERS has the default 4; main.go 137-139: a PART_SIZE of
\* 0 (also the value of an unset PART_SIZE) becomes 1000 MiB.
DefaultWorkers == 4
DefaultPartSize == 1000 * 1048576

\* The values upload.env can hold that envconfig accepts: WORKERS is any
\* int or unset (the empty sequence), PART_SIZE a size or unset (0).
EnvValues ==
    [PART_SIZE : 0..MaxPartSize,
     WORKERS : {<< >>} \cup {<< w >> : w \in (0 - 1)..MaxWorkers}]

\* The process before loadConfigFromEnv: -path names a single file.
InitEnv ==
    /\ env \in EnvValues
    /\ partSize = 0
    /\ numWorkers = 0
    /\ mode = "file"
    /\ \E s \in 0..MaxFileSize : fileSize = [f \in Files |-> IF f = 1 THEN s ELSE 0]
    /\ remote = [d \in Dirs |-> {}]
    /\ run = 1
    /\ prev = "none"
    /\ mpc = "config"
    /\ InitProcess
    /\ NoParse
    /\ NoList

\* main.go 124-142, 484-509: loadConfigFromEnv and the construction of the
\* Uploader; Fatalln when upload.env cannot be loaded.
LoadConfig ==
    /\ Running /\ mpc = "config"
    /\ \E loaded \in BOOLEAN :
        IF loaded
        THEN /\ partSize' = IF env.PART_SIZE = 0 THEN DefaultPartSize ELSE env.PART_SIZE
             /\ numWorkers' = IF env.WORKERS = << >> THEN DefaultWorkers
                               ELSE env.WORKERS[1]
             /\ mpc' = "mkdir"
             /\ crashed' = crashed
        ELSE /\ crashed' = "fatal"
             /\ UNCHANGED << partSize, numWorkers, mpc >>
    /\ UNCHANGED << parser, lister, made, uploadURL, urls, ctl, mode, fileSize, prev, remote, hist, run, stack, listing,
                    coord, sync, tasks, attempts, finLog, delReq, ret >>

(* ------------------------------ main ---------------------------------- *)
\* main.go 339-362: createRemoteDir as main calls it (main.go 511-515),
\* with a record of the attempts of its paced call and of its result.
createRemoteDir ==
    /\ Running /\ mpc = "mkdir"
    /\ \E status \in CtlStatuses :
        /\ PacerStep(status)
        /\ calls' = Append(calls, [status |-> status, done |-> ctxDone])
        /\ pres' = IF PacerOk(status) THEN "nil"
                   ELSE IF PacerFatal(status) THEN "err" ELSE pres
        /\ mpc' = IF PacerOk(status) THEN "stat" ELSE mpc
        /\ made' = IF PacerOk(status) THEN made \cup {"/"} ELSE made
        /\ attempts' = IF PacerRetry(status) THEN attempts + 1 ELSE 0
        /\ crashed' = IF PacerFatal(status) THEN "fatal" ELSE crashed
    /\ UNCHANGED << parser, lister, uploadURL, urls, env, ctxDone, config, remote, hist, run, stack, listing, coord,
                    sync, tasks, finLog, delReq, ret >>

\* main.go 117-120: the context handed to shouldRetry becomes done.
CtxCancel ==
    /\ Running /\ mpc = "mkdir"
    /\ ~ctxDone
    /\ ctxDone' = TRUE
    /\ UNCHANGED << parser, lister, made, uploadURL, urls, env, calls, pres, config, remote, hist, run, walk, coord, sync,
                    tasks, attempts, finLog, delReq, ret, crashed >>

\* main.go 511-515: createRemoteDir(*destDir), Fatalln on error.
MainMkdir ==
    /\ Running /\ mpc = "mkdir"
    /\ \E status \in CtlStatuses :
        /\ PacerStep(status)
        /\ mpc' = IF PacerOk(status) THEN "stat" ELSE mpc
        /\ made' = IF PacerOk(status) THEN made \cup {"/"} ELSE made
        /\ attempts' = IF PacerRetry(status) THEN attempts + 1 ELSE 0
        /\ crashed' = IF PacerFatal(status) THEN "fatal" ELSE crashed
    /\ UNCHANGED << parser, lister, uploadURL, urls, ctl, config, remote, hist, run, stack, listing, coord, sync, tasks,
                    finLog, delReq, ret >>

\* main.go 517-530: os.Stat, then uploadFile or uploadFilesInDirectory.
MainStat ==
    /\ Running /\ mpc = "stat"
    /\ \E statOk \in BOOLEAN :
        IF ~statOk
        THEN /\ crashed' = "fatal"
             /\ UNCHANGED << mpc, stack, cur, upc >>
        ELSE /\ crashed' = crashed
             /\ IF mode = "file"
                THEN /\ mpc' = "upload"
                     /\ cur' = 1
                     /\ upc' = "begin"
                     /\ stack' = stack
                ELSE /\ mpc' = "walk"
                     /\ stack' = << [dir |-> "/", pc |-> "enter", idx |-> 1, files |-> {}] >>
                     /\ UNCHANGED << cur, upc >>
    /\ UNCHANGED << parser, lister, made, uploadURL, urls, ctl, config, remote, hist, run, listing, i, numParts, parts, attempts,
                    sync, tasks, finLog, delReq, ret >>

\* The caller has read uploadFile's result: the call's frame is gone, and
\* with it what the model records of the call.
UploadFrameGone ==
    /\ upc' = "idle"
    /\ cur' = 0
    /\ i' = 0
    /\ parts' = << >>
    /\ finLog' = << >>
    /\ delReq' = 0
    /\ ret' = "none"

\* main.go 524-532: uploadFile returned; "Uploads complete!".
MainUploadReturn ==
    /\ Running /\ mpc = "upload" /\ upc = "ret"
    /\ mpc' = "complete"
    /\ UploadFrameGone
    /\ UNCHANGED << parser, lister, made, uploadURL, urls, ctl, config, remote, hist, run, stack, listing, numParts,
                    attempts, sync, tasks, crashed >>

(* ---------------------------- uploadFile ------------------------------ *)
\* main.go 171-179: "/api/uploads/" and the md5 of "name:destDir:size";
\* the hash is modelled by the triple it is computed from.
SessionPathNoSize(name, destDir, size) == << "/api/uploads", name, destDir, 0 >>
SessionPath(name, destDir, size) == << "/api/uploads", name, destDir, size >>

\* main.go 155-213: open, first read, numParts, the channels, the closer.
\* file.Read fails with io.EOF on an empty file; make(chan struct{},
\* u.numWorkers) panics when numWorkers is negative.
UploadBegin ==
    /\ Running /\ upc = "begin"
    /\ \E io \in {"ok", "openErr", "readErr"} :
        LET f == cur
            res == IF io = "openErr" THEN "openErr"
                   ELSE IF io = "readErr" \/ fileSize[f] = 0 THEN "readErr"
                   ELSE "ok"
            n == NumParts(fileSize[f], partSize)
            url == SessionPath(FileName(f), FileDir(f), fileSize[f])
        IN IF res = "ok" /\ numWorkers < 0
           THEN /\ crashed' = "panic"
                /\ uploadURL' = [uploadURL EXCEPT ![f] = url]
                /\ UNCHANGED << numParts, cpc, upc, ret >>
           ELSE IF res = "ok"
           THEN /\ numParts' = [numParts EXCEPT ![f] = n]
                /\ uploadURL' = [uploadURL EXCEPT ![f] = url]
                /\ cpc' = [cpc EXCEPT ![f] = "wait"]
                /\ upc' = IF 0 < n THEN "dispatch" ELSE "collect"
                /\ ret' = "none"
                /\ crashed' = crashed
           ELSE /\ ret' = IF res = "openErr" THEN "open_err" ELSE "read_nil"
                /\ upc' = "ret"
                /\ UNCHANGED << numParts, cpc, crashed, uploadURL >>
    /\ i' = 0
    /\ parts' = << >>
    /\ hist' = [hist EXCEPT ![cur] = "called"]
    /\ UNCHANGED << parser, lister, made, urls, ctl, config, remote, run, walk, cur, attempts, concurrentWorkers,
                    wg, uploadedParts, closed, tasks, finLog, delReq >>

\* main.go 222: concurrentWorkers <- struct{}{} blocks while the channel is full.
SlotAlwaysFree(f) == TRUE
SlotFree(f) == concurrentWorkers[f] < numWorkers

DispatchAcquire ==
    /\ Running /\ upc = "dispatch"
    /\ SlotFree(cur)
    /\ concurrentWorkers' = [concurrentWorkers EXCEPT ![cur] = @ + 1]
    /\ upc' = "spawn"
    /\ UNCHANGED << parser, lister, made, uploadURL, urls, ctl, config, remote, hist, run, walk, cur, i, numParts, parts, attempts,
                    wg, uploadedParts, closed, cpc, tasks, finLog, delReq, ret,
                    crashed >>

\* main.go 215-225, 282-283: wg.Add(1), go func(i, start, end), i++.
DispatchSpawn ==
    /\ Running /\ upc = "spawn"
    /\ wg' = [wg EXCEPT ![cur] = @ + 1]
    /\ tpc' = [tpc EXCEPT ![cur][i + 1] = "start"]
    /\ rng' = [rng EXCEPT ![cur][i + 1] = PartRange(i, fileSize[cur], partSize)]
    /\ i' = i + 1
    /\ upc' = IF i + 1 < numParts[cur] THEN "dispatch" ELSE "collect"
    /\ UNCHANGED << parser, lister, made, uploadURL, urls, ctl, config, remote, hist, run, walk, cur, numParts, parts, attempts,
                    concurrentWorkers, uploadedParts, closed, cpc, part,
                    partReq, answer, finLog, delReq, ret, crashed >>

\* main.go 286-288: one iteration of  for uploadPart := range uploadedParts.
CollectRecv ==
    /\ Running /\ upc = "collect"
    /\ uploadedParts[cur] # << >>
    /\ parts' = Append(parts, Head(uploadedParts[cur]))
    /\ uploadedParts' = [uploadedParts EXCEPT ![cur] = Tail(@)]
    /\ UNCHANGED << parser, lister, made, uploadURL, urls, ctl, config, remote, hist, run, walk, cur, upc, i, numParts, attempts,
                    concurrentWorkers, wg, closed, cpc, tasks, finLog, delReq,
                    ret, crashed >>

\* main.go 286-305: the range loop ends on the closed, drained channel;
\* then the completeness check and the sort.
CollectEnd ==
    /\ Running /\ upc = "collect"
    /\ uploadedParts[cur] = << >> /\ closed[cur]
    /\ IF Complete(parts, numParts[cur])
       THEN /\ parts' = SortByPartNo(parts)
            /\ upc' = "finalize"
            /\ ret' = ret
       ELSE /\ ret' = "incomplete_err"
            /\ upc' = "ret"
            /\ parts' = parts
    /\ UNCHANGED << parser, lister, made, uploadURL, urls, ctl, config, remote, hist, run, walk, cur, i, numParts, attempts, sync,
                    tasks, finLog, delReq, crashed >>

\* main.go 323-325: an error of the finalize call returns; the
\* delete-session call follows only a finalize call that succeeded.
AfterFinalizeNoReturn(failed) == "cleanup"
AfterFinalize(failed) == IF failed THEN "ret" ELSE "cleanup"

\* main.go 313-325: POST /api/files through the pacer.  The backend lists
\* a file once its finalize request succeeded.
Finalize ==
    /\ Running /\ upc = "finalize"
    /\ \E status \in CtlStatuses :
        /\ PacerStep(status)
        /\ finLog' = Append(finLog, parts)
        /\ attempts' = IF PacerRetry(status) THEN attempts + 1 ELSE 0
        /\ upc' = IF PacerRetry(status) THEN upc ELSE AfterFinalize(PacerFatal(status))
        /\ ret' = IF PacerFatal(status) THEN "finalize_err" ELSE ret
        /\ hist' = IF PacerOk(status) THEN [hist EXCEPT ![cur] = "finalized"] ELSE hist
        /\ remote' = IF PacerOk(status)
                     THEN [remote EXCEPT ![FileDir(cur)] = @ \cup {FileName(cur)}]
                     ELSE remote
    /\ UNCHANGED << parser, lister, made, uploadURL, urls, ctl, config, run, walk, cur, i, numParts, parts, sync, tasks,
                    delReq, crashed >>

\* main.go 327-336: DELETE /api/uploads/{hash} through the pacer.
Cleanup ==
    /\ Running /\ upc = "cleanup"
    /\ \E status \in CtlStatuses :
        /\ PacerStep(status)
        /\ delReq' = delReq + 1
        /\ urls' = [urls EXCEPT ![cur] = @ \cup {[req |-> "delete", path |-> uploadURL[cur]]}]
        /\ attempts' = IF PacerRetry(status) THEN attempts + 1 ELSE 0
        /\ upc' = IF PacerRetry(status) THEN upc ELSE "ret"
        /\ ret' = IF PacerOk(status) THEN "ok_nil"
                  ELSE IF PacerFatal(status) THEN "cleanup_err"
                  ELSE ret
    /\ UNCHANGED << parser, lister, made, uploadURL, ctl, config, remote, hist, run, walk, cur, i, numParts, parts,
                    sync, tasks, finLog, crashed >>

(* ----------------------- the closer goroutine ------------------------- *)
\* main.go 208-209: wg.Wait() returns when the counter is zero.
CloserWait(f) ==
    /\ Running /\ cpc[f] = "wait"
    /\ wg[f] = 0
    /\ cpc' = [cpc EXCEPT ![f] = "close"]
    /\ UNCHANGED << parser, lister, made, uploadURL, urls, ctl, config, remote, hist, run, walk, coord, attempts, concurrentWorkers,
                    wg, uploadedParts, closed, tasks, finLog, delReq, ret, crashed >>

\* main.go 210-212: close(uploadedParts).
CloserClose(f) ==
    /\ Running /\ cpc[f] = "close"
    /\ closed' = [closed EXCEPT ![f] = TRUE]
    /\ cpc' = [cpc EXCEPT ![f] = "end"]
    /\ UNCHANGED << parser, lister, made, uploadURL, urls, ctl, config, remote, hist, run, walk, coord, attempts, concurrentWorkers,
                    wg, uploadedParts, tasks, finLog, delReq, ret, crashed >>

(* ---------------------- the part-upload goroutines -------------------- *)
\* main.go 231-272: open and seek the part's own handle, then issue the
\* upload request; an open or seek error ends the goroutine.
TaskBegin(f, p) ==
    /\ Running /\ tpc[f][p] = "start"
    /\ \E io \in {"ok", "openErr", "seekErr"} :
        IF io = "ok"
        THEN /\ partReq' = [partReq EXCEPT ![f][p] = @ + 1]
             /\ urls' = [urls EXCEPT ![f] = @ \cup {[req |-> "part", path |-> uploadURL[f]]}]
             /\ tpc' = [tpc EXCEPT ![f][p] = "inflight"]
             /\ answer' = answer
        ELSE /\ answer' = [answer EXCEPT ![f][p] = "failed"]
             /\ tpc' = [tpc EXCEPT ![f][p] = "release"]
             /\ partReq' = partReq
             /\ urls' = urls
    /\ UNCHANGED << parser, lister, made, uploadURL, ctl, config, remote, hist, run, walk, coord, attempts, sync, rng,
                    part, finLog, delReq, ret, crashed >>

\* The answers to the upload request of part p: status 0 is a transport
\* error, 500 an HTTP error (CallJSON returns err), 201 a success that is
\* not 200, and 200 carries the PartNo of the body: the request's own
\* part number, or 0 when the body holds none (the decoded zero value).
PartAnswers(p) ==
    {[status |-> 200, partNo |-> r] : r \in {0, p}}
        \cup {[status |-> s, partNo |-> 0] : s \in {0, 201, 500}}

\* main.go 274-279: err != nil returns; only status 200 delivers.
DeliversAny(a) == a.status # 0
Delivers(a) == a.status = 200

\* main.go 274-281: a request that failed is not repeated; the goroutine
\* returns (or falls off its end when the status is not 200).
RetryFailed(a) == IF Delivers(a) THEN "send" ELSE "start"
AfterResponse(a) == IF Delivers(a) THEN "send" ELSE "release"

\* main.go 272-281: the response of the upload request.
TaskResponse(f, p) ==
    /\ Running /\ tpc[f][p] = "inflight"
    /\ \E a \in PartAnswers(p) :
        /\ answer' = [answer EXCEPT ![f][p] =
                         IF a.status # 200 THEN "failed"
                         ELSE IF a.partNo = p THEN "own" ELSE "other"]
        /\ tpc' = [tpc EXCEPT ![f][p] = AfterResponse(a)]
        /\ part' = IF Delivers(a) THEN [part EXCEPT ![f][p] = a.partNo] ELSE part
    /\ UNCHANGED << parser, lister, made, uploadURL, urls, ctl, config, remote, hist, run, walk, coord, attempts, sync, rng,
                    partReq, finLog, delReq, ret, crashed >>

\* main.go 280: uploadedParts <- part.  A send on a closed channel panics
\* and the process dies; the buffer holds numParts values.
TaskSend(f, p) ==
    /\ Running /\ tpc[f][p] = "send"
    /\ closed[f] \/ Len(uploadedParts[f]) < numParts[f]
    /\ IF closed[f]
       THEN /\ crashed' = "panic"
            /\ UNCHANGED << uploadedParts, tpc, part >>
       ELSE /\ uploadedParts' = [uploadedParts EXCEPT ![f] = Append(@, part[f][p])]
            /\ tpc' = [tpc EXCEPT ![f][p] = "release"]
            /\ part' = [part EXCEPT ![f][p] = 0]
            /\ crashed' = crashed
    /\ UNCHANGED << parser, lister, made, uploadURL, urls, ctl, config, remote, hist, run, walk, coord, attempts,
                    concurrentWorkers, wg, closed, cpc, rng, partReq, answer,
                    finLog, delReq, ret >>

\* main.go 227-229: the deferred <-concurrentWorkers runs first.
TaskRelease(f, p) ==
    /\ Running /\ tpc[f][p] = "release"
    /\ concurrentWorkers[f] > 0
    /\ concurrentWorkers' = [concurrentWorkers EXCEPT ![f] = @ - 1]
    /\ tpc' = [tpc EXCEPT ![f][p] = "done"]
    /\ UNCHANGED << parser, lister, made, uploadURL, urls, ctl, config, remote, hist, run, walk, coord, attempts, wg,
                    uploadedParts, closed, cpc, rng, part, partReq, answer,
                    finLog, delReq, ret, crashed >>

\* main.go 226: the deferred wg.Done() runs last.
TaskDone(f, p) ==
    /\ Running /\ tpc[f][p] = "done"
    /\ wg' = [wg EXCEPT ![f] = @ - 1]
    /\ tpc' = [tpc EXCEPT ![f][p] = "end"]
    /\ UNCHANGED << parser, lister, made, uploadURL, urls, ctl, config, remote, hist, run, walk, coord, attempts,
                    concurrentWorkers, uploadedParts, closed, cpc, rng, part,
                    partReq, answer, finLog, delReq, ret, crashed >>

(* ----------------------- uploadFilesInDirectory ----------------------- *)
Top == stack[Len(stack)]
SetTop(fr) == [stack EXCEPT ![Len(stack)] = fr]
InWalk == Running /\ mpc = "walk" /\ stack # << >>

\* main.go 446, 470: the position of a frame between two entries: the
\* listing fetched before the loop serves every entry.
RelistPc == "list"
NextEntryPc == "loop"

\* The frame returns to its caller: the caller logs the error value and
\* goes on with its next entry (main.go 456-457); main prints
\* "Uploads complete!" (main.go 519-532).
Return ==
    IF Len(stack) = 1
    THEN /\ stack' = << >>
         /\ mpc' = "complete"
    ELSE /\ stack' = [SubSeq(stack, 1, Len(stack) - 1) EXCEPT ![Len(stack) - 1] =
                        [@ EXCEPT !.idx = @ + 1, !.pc = NextEntryPc]]
         /\ mpc' = mpc

\* main.go 433-436: os.ReadDir(sourcePath).
WalkReadDir ==
    /\ InWalk /\ Top.pc = "enter"
    /\ \E ok \in BOOLEAN :
        IF ok
        THEN /\ stack' = SetTop([Top EXCEPT !.pc = "list"])
             /\ mpc' = mpc
        ELSE Return
    /\ UNCHANGED << parser, lister, made, uploadURL, urls, ctl, config, remote, hist, run, listing, coord, attempts, sync, tasks,
                    finLog, delReq, ret, crashed >>

\* main.go 398-421: the names the backend lists in the directory.
ListNothing(dir) == {}
ListFiles(dir) == remote[dir]

\* main.go 387-393: after a failed call readMetaDataForPath reads
\* resp.StatusCode, which dereferences a nil pointer when the last attempt
\* got no response.
NilDeref(status) == NoResponse(status)

\* main.go 440-444: files, err := u.list(destDir), a paced call
\* (main.go 382-385).
WalkList ==
    /\ InWalk /\ Top.pc = "list"
    /\ \E status \in CtlStatuses :
        /\ PacerStep(status)
        /\ attempts' = IF PacerRetry(status) THEN attempts + 1 ELSE 0
        /\ IF PacerOk(status)
           THEN /\ stack' = SetTop([Top EXCEPT !.pc = "loop", !.files = ListFiles(Top.dir)])
                /\ listing' = [listing EXCEPT ![Top.dir] = Append(@, ListFiles(Top.dir))]
                /\ UNCHANGED << mpc, crashed, listErr >>
           ELSE IF PacerFatal(status) /\ NilDeref(status)
           THEN /\ crashed' = "nilptr"
                /\ listErr' = listErr \cup {Top.dir}
                /\ UNCHANGED << stack, listing, mpc >>
           ELSE IF PacerFatal(status)
           THEN /\ Return
                /\ listErr' = listErr \cup {Top.dir}
                /\ UNCHANGED << listing, crashed >>
           ELSE UNCHANGED << stack, listing, mpc, crashed, listErr >>
    /\ UNCHANGED << parser, lpc, info, nextPageToken, acc, reqs, lret, made, uploadURL, urls, ctl, config, remote, hist, run, coord, sync,
                    tasks, finLog, delReq, ret >>

Entry == ReadDir(Top.dir)[Top.idx]
AtEntry == InWalk /\ Top.pc = "loop" /\ Top.idx <= Len(ReadDir(Top.dir))

\* main.go 452-456: the recursive call follows a createRemoteDir that
\* returned nil.
RecurseUnlessRetry(status) == ~PacerRetry(status)
Recurse(status) == PacerOk(status)

\* main.go 449-456: createRemoteDir(subDir), Fatalln on error, then the
\* recursive call.
WalkEntryDir ==
    /\ AtEntry /\ Entry.isDir
    /\ \E status \in CtlStatuses :
        /\ PacerStep(status)
        /\ attempts' = IF PacerRetry(status) THEN attempts + 1 ELSE 0
        /\ crashed' = IF PacerFatal(status) THEN "fatal" ELSE crashed
        /\ made' = IF PacerOk(status) THEN made \cup {Entry.sub} ELSE made
        /\ stack' = IF Recurse(status)
                    THEN Append(SetTop([Top EXCEPT !.pc = "call"]),
                                [dir |-> Entry.sub, pc |-> "enter", idx |-> 1, files |-> {}])
                    ELSE stack
    /\ UNCHANGED << parser, lister, uploadURL, urls, ctl, config, remote, hist, run, mpc, listing, coord, sync, tasks, finLog,
                    delReq, ret >>

\* main.go 460-468: upload the file unless the listing holds its name.
WalkEntryFile ==
    /\ AtEntry /\ ~Entry.isDir
    /\ IF checkFileExists(Entry.name, Top.files)
       THEN /\ stack' = SetTop([Top EXCEPT !.idx = @ + 1, !.pc = NextEntryPc])
            /\ UNCHANGED << cur, upc >>
       ELSE /\ stack' = SetTop([Top EXCEPT !.pc = "upload"])
            /\ cur' = Entry.id
            /\ upc' = "begin"
    /\ UNCHANGED << parser, lister, made, uploadURL, urls, ctl, config, remote, hist, run, mpc, listing, i, numParts, parts,
                    attempts, sync, tasks, finLog, delReq, ret, crashed >>

\* main.go 462-465: uploadFile returned; its error is logged.
WalkUploadReturn ==
    /\ InWalk /\ Top.pc = "upload" /\ upc = "ret"
    /\ stack' = SetTop([Top EXCEPT !.idx = @ + 1, !.pc = NextEntryPc])
    /\ UploadFrameGone
    /\ UNCHANGED << parser, lister, made, uploadURL, urls, ctl, config, remote, hist, run, mpc, listing, numParts, attempts,
                    sync, tasks, crashed >>

\* main.go 446, 471: the loop over the entries is over, return nil.
WalkReturn ==
    /\ InWalk /\ Top.pc = "loop" /\ Top.idx > Len(ReadDir(Top.dir))
    /\ Return
    /\ UNCHANGED << parser, lister, made, uploadURL, urls, ctl, config, remote, hist, run, listing, coord, attempts, sync, tasks,
                    finLog, delReq, ret, crashed >>

\* The files whose finalize request succeeded.
Finalized == {f \in Files : hist[f] = "finalized"}

\* The tool is started a second time on the same tree and destination,
\* after the first process ended: a fresh process, the same backend.
Rerun ==
    /\ ~Running /\ run = 1
    /\ run' = 2
    /\ prev' = IF crashed = "no" /\ Finalized = Files THEN "allFinalized" ELSE "other"
    /\ mpc' = "mkdir"
    /\ stack' = << >>
    /\ cur' = 0
    /\ upc' = "idle"
    /\ i' = 0
    /\ numParts' = [f \in Files |-> 0]
    /\ parts' = << >>
    /\ attempts' = 0
    /\ concurrentWorkers' = [f \in Files |-> 0]
    /\ wg' = [f \in Files |-> 0]
    /\ uploadedParts' = [f \in Files |-> << >>]
    /\ closed' = [f \in Files |-> FALSE]
    /\ cpc' = [f \in Files |-> "none"]
    /\ tpc' = [f \in Files |-> [p \in PartNos |-> "new"]]
    /\ rng' = [f \in Files |-> [p \in PartNos |-> << 0, 0 >>]]
    /\ part' = [f \in Files |-> [p \in PartNos |-> 0]]
    /\ partReq' = [f \in Files |-> [p \in PartNos |-> 0]]
    /\ answer' = [f \in Files |-> [p \in PartNos |-> "none"]]
    /\ finLog' = << >>
    /\ delReq' = 0
    /\ ret' = "none"
    /\ hist' = [f \in Files |-> "none"]
    /\ listing' = [d \in Dirs |-> << >>]
    /\ crashed' = "no"
    /\ made' = {}
    /\ uploadURL' = [f \in Files |-> << >>]
    /\ urls' = [f \in Files |-> {}]
    /\ listErr' = {}
    /\ UNCHANGED << parser, lpc, info, nextPageToken, acc, reqs, lret, ctl, partSize, numWorkers, mode, fileSize, remote >>

(* ------------------------------- list --------------------------------- *)
\* main.go 400: var limit uint64 = 500
PerPage == 500

\* The next-page tokens and the pages a backend can answer with.
Tokens == {"", "t1", "t2"}
Pages ==
    [files : {<< >>, << "a" >>, << "b", "c" >>}, next : Tokens, err : {"none"}]

\* One call of Uploader.list, from its first request on.
InitList ==
    /\ partSize = 1
    /\ numWorkers = 1
    /\ env = [PART_SIZE |-> partSize, WORKERS |-> << numWorkers >>]
    /\ mode = "dir"
    /\ fileSize = [f \in Files |-> 0]
    /\ remote = [d \in Dirs |-> {}]
    /\ run = 1
    /\ prev = "none"
    /\ mpc = "upload"
    /\ InitProcess
    /\ NoParse
    /\ lpc = "call"
    /\ info = NoPage
    /\ nextPageToken = ""
    /\ acc = << >>
    /\ reqs = << >>
    /\ lret = [files |-> << >>, err |-> "none"]
    /\ listErr = {}

\* main.go 364-396: one attempt of the paced call of readMetaDataForPath,
\* with the options list built (main.go 403-406), and what the function
\* does with the outcome.  The model lets one call of list make
\* MaxRequests attempts.
readMetaDataForPath ==
    /\ crashed = "no" /\ lpc = "call"
    /\ Len(reqs) < MaxRequests
    /\ \E status \in CtlStatuses :
        /\ PacerStep(status)
        /\ attempts' = IF PacerRetry(status) THEN attempts + 1 ELSE 0
        /\ IF PacerOk(status)
           THEN /\ \E page \in Pages :
                    /\ info' = page
                    /\ reqs' = Append(reqs, [perPage |-> PerPage, token |-> nextPageToken,
                                             res |-> "ok", page |-> page])
                /\ lpc' = "got"
                /\ crashed' = crashed
           ELSE /\ reqs' = Append(reqs, [perPage |-> PerPage, token |-> nextPageToken,
                                         res |-> IF PacerFatal(status) THEN "err" ELSE "retry",
                                         page |-> NoPage])
                /\ IF PacerFatal(status) /\ NilDeref(status)
                   THEN /\ crashed' = "nilptr"
                        /\ UNCHANGED << info, lpc >>
                   ELSE IF PacerFatal(status)
                   THEN /\ info' = [NoPage EXCEPT !.err = "err"]
                        /\ lpc' = "got"
                        /\ crashed' = crashed
                   ELSE UNCHANGED << info, lpc, crashed >>
    /\ UNCHANGED << parser, nextPageToken, acc, lret, listErr, made, uploadURL, urls, ctl, config,
                    remote, hist, run, walk, coord, sync, tasks, finLog, delReq, ret >>

\* main.go 408-421: the body of list's loop after readMetaDataForPath
\* returned, and the return after the loop.
list ==
    /\ crashed = "no" /\ lpc = "got"
    /\ IF info.err # "none"
       THEN /\ lret' = [files |-> << >>, err |-> info.err]
            /\ lpc' = "ret"
            /\ UNCHANGED << acc, nextPageToken >>
       ELSE /\ acc' = acc \o info.files
            /\ nextPageToken' = info.next
            /\ IF info.next = ""
               THEN /\ lret' = [files |-> acc', err |-> "none"]
                    /\ lpc' = "ret"
               ELSE /\ lret' = lret
                    /\ lpc' = "call"
    /\ UNCHANGED << parser, info, reqs, listErr, made, uploadURL, urls, ctl, config, remote, hist,
                    run, walk, coord, sync, tasks, attempts, finLog, delReq, ret, crashed >>

(* ----------------------- parsing PART_SIZE ---------------------------- *)
\* The process of the earlier revision before loadConfigFromEnv, with some
\* PART_SIZE string.
InitSize ==
    /\ env = [PART_SIZE |-> 0, WORKERS |-> << >>]
    /\ partSize = 0
    /\ numWorkers = 0
    /\ mode = "file"
    /\ fileSize = [f \in Files |-> 0]
    /\ remote = [d \in Dirs |-> {}]
    /\ run = 1
    /\ prev = "none"
    /\ mpc = "config"
    /\ InitProcess
    /\ sizeStr \in SizeStrings
    /\ parsed = << >>
    /\ build \in Builds
    /\ NoList

\* part_003 102: partSizeBytes, err := fileSizeToBytes(partSize); the model
\* makes the call up to two times on the same string.
ParsePartSize ==
    /\ Running /\ mpc = "config"
    /\ Len(parsed) < 2
    /\ parsed' = Append(parsed, fileSizeToBytes(sizeStr, build))
    /\ UNCHANGED << sizeStr, build, lister, made, uploadURL, urls, ctl, config, remote, hist, run,
                    walk, coord, sync, tasks, attempts, finLog, delReq, ret, crashed >>

(* --------------------------- specification ---------------------------- *)
Coordinator ==
    \/ UploadBegin
    \/ DispatchAcquire
    \/ DispatchSpawn
    \/ CollectRecv
    \/ CollectEnd
    \/ Finalize
    \/ Cleanup

Goroutines ==
    \E f \in Files :
        \/ CloserWait(f)
        \/ CloserClose(f)
        \/ \E p \in PartNos :
            \/ TaskBegin(f, p)
            \/ TaskResponse(f, p)
            \/ TaskSend(f, p)
            \/ TaskRelease(f, p)
            \/ TaskDone(f, p)

Next ==
    \/ MainMkdir
    \/ MainStat
    \/ MainUploadReturn
    \/ Coordinator
    \/ Goroutines

Spec == Init /\ [][Next]_vars

\* The Go scheduler runs every goroutine that can take a step: main, the
\* closer goroutine and the part goroutines of every file; a request that
\* was issued is answered, a paced call returns.
PartTask(f, p) ==
    \/ TaskBegin(f, p)
    \/ TaskResponse(f, p)
    \/ TaskSend(f, p)
    \/ TaskRelease(f, p)
    \/ TaskDone(f, p)
Closer(f) == CloserWait(f) \/ CloserClose(f)
MainGoroutine == MainMkdir \/ MainStat \/ MainUploadReturn \/ Coordinator
Fairness ==
    /\ WF_vars(MainGoroutine)
    /\ \A f \in Files : WF_vars(Closer(f))
    /\ \A f \in Files : \A p \in PartNos : WF_vars(PartTask(f, p))

SpecLive == Init /\ [][Next]_vars /\ Fairness

Walker ==
    \/ WalkReadDir
    \/ WalkList
    \/ WalkEntryDir
    \/ WalkEntryFile
    \/ WalkUploadReturn
    \/ WalkReturn

NextWalk ==
    \/ MainMkdir
    \/ MainStat
    \/ Walker
    \/ Coordinator
    \/ Goroutines
    \/ Rerun

SpecWalk == InitWalk /\ [][NextWalk]_vars

\* One call of createRemoteDir under a context that can become done.
NextPacer ==
    \/ createRemoteDir
    \/ CtxCancel

SpecPacer == Init /\ [][NextPacer]_vars

\* The process from the loading of its configuration on.
NextEnv ==
    \/ LoadConfig
    \/ Next

SpecEnv == InitEnv /\ [][NextEnv]_vars

\* One call of Uploader.list.
NextList ==
    \/ readMetaDataForPath
    \/ list

SpecList == InitList /\ [][NextList]_vars

\* The size parser on one PART_SIZE string.
NextSize == ParsePartSize

SpecSize == InitSize /\ [][NextSize]_vars

(* ------------------------------ claims -------------------------------- *)
Min(a, b) == IF a < b THEN a ELSE b
Range(q) == {q[k] : k \in 1..Len(q)}
Iota(n) == [k \in 1..n |-> k]
Dispatched(f) == {p \in PartNos : tpc[f][p] # "new"}
InSlot(f) == {p \in PartNos : tpc[f][p] \in {"start", "inflight", "send", "release"}}
Failed(f) == {p \in PartNos : answer[f][p] = "failed"}
\* The least n with n * b >= a.
CeilDiv(a, b) == CHOOSE n \in 0..a : n * b >= a /\ (n = 0 \/ (n - 1) * b < a)
\* uploadFile is past its dispatch loop.
LoopDone ==
    /\ cur # 0
    /\ upc \in {"collect", "finalize", "cleanup", "ret"}
    /\ ret \notin {"open_err", "read_nil"}

\* C1: while a part upload of the file has failed (open or seek error,
\* transport error, or a status other than 200), the call has issued no
\* finalize request.
C1_NoFinalizeAfterFailedPart ==
    \A f \in Files : (cur = f /\ Failed(f) # {}) => finLog = << >>

C1_Witness ==
    /\ cur = 1 /\ upc = "ret" /\ ret = "incomplete_err"
    /\ numParts[1] = 2 /\ Len(parts) = 1 /\ Failed(1) # {}

\* C2 (as claimed): once every part of the file was answered with HTTP 200
\* and its own part number, and no finalize or delete-session attempt
\* failed, the process has not died, uploadFile does not report incomplete
\* parts, and when it returns it returns success after exactly one finalize
\* request with the parts 1..numParts and one delete-session request.
C2_Original ==
    \A f \in Files :
        ( /\ cur = f /\ fileSize[f] >= 1 /\ cpc[f] # "none"
          /\ \A p \in 1..numParts[f] : answer[f][p] = "own"
          /\ ret \notin {"finalize_err", "cleanup_err"}
          /\ Len(finLog) <= 1 /\ delReq <= 1 )
        => /\ crashed # "panic"
           /\ ret # "incomplete_err"
           /\ (upc = "ret" => /\ ret = "ok_nil"
                              /\ finLog = << Iota(numParts[f]) >>
                              /\ delReq = 1)

\* C3 (as claimed): once wg.Wait() has returned in the closer goroutine
\* (and so whenever the result channel is closed), every one of the
\* numParts part tasks has been dispatched and has finished.
C3_Original ==
    \A f \in Files :
        cpc[f] \in {"close", "end"} => \A p \in 1..numParts[f] : tpc[f][p] = "end"

\* C4 (as claimed): every finalize request carries the parts 1..numParts
\* in ascending order.
C4_Original ==
    \A k \in 1..Len(finLog) : finLog[k] = Iota(numParts[cur])

\* C4 (amended): when every HTTP 200 answer carried the part number of its
\* own request, every finalize request carries the parts 1..numParts in
\* ascending order, each once.
C4_SortedComplete ==
    (cur # 0 /\ \A p \in PartNos : answer[cur][p] # "other")
        => \A k \in 1..Len(finLog) : finLog[k] = Iota(numParts[cur])

C4_Witness ==
    /\ cur = 1 /\ numParts[1] = 3 /\ finLog = << << 1, 2, 3 >> >>
    /\ \A p \in 1..3 : answer[1][p] = "own"

\* C5: the part tasks that were started and have not released their slot
\* are at most numWorkers, and each of them, and the coordinator between
\* its acquire and its go statement, holds one slot of concurrentWorkers.
C5_AtMostWorkers ==
    \A f \in Files :
        /\ Cardinality(InSlot(f)) <= numWorkers
        /\ concurrentWorkers[f] =
              Cardinality(InSlot(f)) + (IF cur = f /\ upc = "spawn" THEN 1 ELSE 0)
        /\ concurrentWorkers[f] <= numWorkers

C5_Witness ==
    /\ cur = 1 /\ upc = "dispatch" /\ numWorkers = 1 /\ i < numParts[1]
    /\ Cardinality(InSlot(1)) = 1

\* C6: for a file of size >= 1, numParts is ceil(fileSize / partSize), and
\* once the dispatch loop is over exactly that many part tasks were
\* dispatched.
C6_NumPartsIsCeil ==
    \A f \in Files :
        (fileSize[f] >= 1 /\ cpc[f] # "none")
        => /\ numParts[f] = CeilDiv(fileSize[f], partSize)
           /\ Cardinality(Dispatched(f)) <= CeilDiv(fileSize[f], partSize)
           /\ ((cur = f /\ LoopDone)
                => Cardinality(Dispatched(f)) = CeilDiv(fileSize[f], partSize))

C6_Witness ==
    /\ cur = 1 /\ upc = "collect" /\ fileSize[1] = 3 /\ partSize = 2
    /\ Cardinality(Dispatched(1)) = 2

\* C7 (as claimed): the call for an empty file that could be opened
\* computes numParts = 1 and dispatches part 1 with the range [0, 0), and
\* does not return without a finalize request unless that part failed.
C7_Original ==
    \A f \in Files :
        (cur = f /\ fileSize[f] = 0 /\ upc = "ret" /\ ret # "open_err")
        => /\ numParts[f] = 1
           /\ tpc[f][1] # "new"
           /\ rng[f][1] = << 0, 0 >>

\* C8: for a file of size >= 1 the part with number p is dispatched with
\* the range [(p-1)*partSize, min(p*partSize, fileSize)); the ranges are
\* not empty, each starts where the one before ends, every part but the
\* last has partSize bytes, and once the loop is over they cover
\* [0, fileSize).
C8_PartRanges ==
    \A f \in Files :
        fileSize[f] >= 1 =>
            /\ \A p \in Dispatched(f) :
                /\ rng[f][p] = << (p - 1) * partSize, Min(p * partSize, fileSize[f]) >>
                /\ rng[f][p][1] < rng[f][p][2]
                /\ (p > 1 => (p - 1) \in Dispatched(f) /\ rng[f][p][1] = rng[f][p - 1][2])
                /\ (p < numParts[f] => rng[f][p][2] - rng[f][p][1] = partSize)
            /\ ((cur = f /\ LoopDone)
                => /\ rng[f][1][1] = 0
                   /\ rng[f][numParts[f]][2] = fileSize[f]
                   /\ Dispatched(f) = 1..numParts[f])

C8_Witness ==
    /\ cur = 1 /\ upc = "collect" /\ fileSize[1] = 3 /\ partSize = 2
    /\ rng[1][1] = << 0, 2 >> /\ rng[1][2] = << 2, 3 >>

\* C9: a file whose name is in the listing fetched for its destination
\* directory is never handed to uploadFile: no part upload request and no
\* finalize request is issued for it.
Listed(f) == listing[FileDir(f)] # << >> /\ FileName(f) \in listing[FileDir(f)][1]

C9_NoUploadOfListedFile ==
    \A f \in Files :
        Listed(f) => /\ hist[f] = "none"
                     /\ cur # f
                     /\ \A p \in PartNos : partReq[f][p] = 0 /\ tpc[f][p] = "new"

C9_Witness ==
    /\ mpc = "complete" /\ run = 1
    /\ Listed(1) /\ hist[1] = "none"
    /\ ~Listed(3) /\ hist[3] = "finalized"

\* C10: in a second run that follows a run which completed with every file
\* finalized, uploadFile is called for no file: no part upload request and
\* no finalize request is issued.
C10_SecondWalkUploadsNothing ==
    (run = 2 /\ prev = "allFinalized")
        => /\ cur = 0 /\ finLog = << >>
           /\ \A f \in Files :
                /\ hist[f] = "none"
                /\ \A p \in PartNos : partReq[f][p] = 0 /\ tpc[f][p] = "new"

C10_Witness ==
    /\ run = 2 /\ prev = "allFinalized" /\ mpc = "complete" /\ crashed = "no"
    /\ \A d \in Dirs : listing[d] # << >>

\* C11 (as claimed): a failure to create the remote directory of a
\* subdirectory entry does not end the process: the walk is never dead at a
\* subdirectory entry with the later entries of the parent unprocessed.
C11_Original ==
    (mpc = "walk" /\ stack # << >> /\ Top.pc = "loop"
        /\ Top.idx <= Len(ReadDir(Top.dir)) /\ Entry.isDir)
    => crashed # "fatal"

\* C12 (as claimed): after uploadFile has returned an error for a file of
\* the walk (it got past the first read, and its finalize did not succeed),
\* and before uploadFile has run for any other file, the process is alive,
\* so that the later entries are processed.
C12_Original ==
    \A f \in Files :
        ( /\ mpc = "walk" /\ cur # f
          /\ hist[f] = "called" /\ cpc[f] # "none"
          /\ \A g \in Files \ {f} : cpc[g] = "none" )
        => crashed # "panic"

\* C13: a delete-session request is issued only by a call whose finalize
\* succeeded; a call whose finalize failed has issued no delete-session
\* request and returns the finalize error.
C13_DeleteOnlyAfterFinalize ==
    /\ (delReq > 0 \/ upc = "cleanup") => (cur # 0 /\ hist[cur] = "finalized")
    /\ ret = "finalize_err" => (delReq = 0 /\ upc = "ret" /\ hist[cur] # "finalized")

C13_Witness ==
    /\ cur = 1 /\ upc = "ret" /\ ret = "finalize_err"
    /\ Len(finLog) = 2 /\ delReq = 0

\* C14 (as claimed): a call whose finalize succeeded does not report the
\* file as failed: it returns nil also when the delete-session call failed.
C14_Original ==
    (cur # 0 /\ upc = "ret" /\ hist[cur] = "finalized") => ret = "ok_nil"

\* C15: a call that ends its collect loop with a number of parts other
\* than numParts returns the "upload failed" error and has issued neither
\* a finalize nor a delete-session request; the finalize and the
\* delete-session call are reached only with exactly numParts parts.
C15_IncompleteReturnsError ==
    cur # 0 =>
        /\ (upc = "ret" /\ ret \notin {"open_err", "read_nil"}
                /\ Len(parts) # numParts[cur])
            => (ret = "incomplete_err" /\ finLog = << >> /\ delReq = 0)
        /\ ret = "incomplete_err"
            => (Len(parts) # numParts[cur] /\ finLog = << >> /\ delReq = 0
                    /\ hist[cur] = "called")
        /\ upc \in {"finalize", "cleanup"} => Len(parts) = numParts[cur]

C15_Witness ==
    /\ cur = 1 /\ upc = "ret" /\ ret = "incomplete_err"
    /\ numParts[1] = 3 /\ Len(parts) = 2 /\ finLog = << >> /\ delReq = 0

\* C16 (as claimed): upload requests of two different files are never in
\* flight at the same time.
InFlight(f) == {p \in PartNos : tpc[f][p] = "inflight"}

C16_Original ==
    \A f, g \in Files : f # g => ~(InFlight(f) # {} /\ InFlight(g) # {})

\* C17: an attempt of a paced call made while the context was not done:
\* after a status of retryErrorCodes or a transient network error the
\* call goes on to another attempt; a status of 2xx ends the call with
\* nil; any other status ends the call, with no further attempt, and the
\* call returns the error.
Retryable(status) == status = 0 \/ status \in retryErrorCodes

C17_Classification ==
    \A k \in 1..Len(calls) :
        ~calls[k].done =>
            IF Retryable(calls[k].status)
            THEN k < Len(calls) \/ (pres = "none" /\ attempts = k /\ crashed = "no")
            ELSE /\ k = Len(calls)
                 /\ pres = (IF calls[k].status \in 200..299 THEN "nil" ELSE "err")
                 /\ attempts = 0

C17_Witness ==
    /\ Len(calls) = 2 /\ pres = "err"
    /\ calls[1].status = 503 /\ ~calls[1].done
    /\ calls[2].status = 401 /\ ~calls[2].done

C20_Original ==
    mpc # "config" => (partSize > 0 /\ numWorkers >= 1)

\* C21 (as claimed): once the top-level directory is created and the source
\* path is found, the process is not ended before its completion message:
\* while main waits for uploadFile the process is alive.
C21_Original ==
    mpc = "upload" => crashed = "no"

\* C24: within one call of uploadFile at most one upload request is issued
\* for each part number; exactly one once the part's handle was opened and
\* positioned; none for a part that was not dispatched; and a part whose
\* request failed has still had that one request.
C24_OneRequestPerPart ==
    \A f \in Files : \A p \in PartNos :
        /\ partReq[f][p] <= 1
        /\ tpc[f][p] \in {"new", "start"} => partReq[f][p] = 0
        /\ tpc[f][p] \in {"inflight", "send"} => partReq[f][p] = 1
        /\ answer[f][p] \in {"own", "other"} => partReq[f][p] = 1
        /\ p > numParts[f] => partReq[f][p] = 0

C24_Witness ==
    /\ cur = 1 /\ upc = "ret" /\ ret = "incomplete_err" /\ numParts[1] = 2
    /\ partReq[1][1] = 1 /\ answer[1][1] = "failed" /\ tpc[1][1] = "end"
    /\ partReq[1][2] = 1 /\ answer[1][2] = "own" /\ tpc[1][2] = "end"

\* C30 (as claimed): no part goroutine sends on the closed result channel,
\* so no goroutine panics.
C30_Original ==
    /\ crashed # "panic"
    /\ \A f \in Files : \A p \in PartNos : tpc[f][p] = "send" => ~closed[f]

\* C25: the call of uploadFilesInDirectory for a directory, its list
\* request and every upload or finalize request for a file of it come after
\* the create request for that directory succeeded, and the create request
\* for the destination succeeded before any other request of the run.
Requested(f) == hist[f] # "none" \/ urls[f] # {} \/ \E p \in PartNos : partReq[f][p] > 0

C25_MkdirFirst ==
    /\ \A k \in 1..Len(stack) : stack[k].dir \in made
    /\ \A d \in Dirs : listing[d] # << >> => d \in made
    /\ \A f \in Files : Requested(f) => FileDir(f) \in made
    /\ (made # {} \/ mpc \notin {"config", "mkdir"}) => "/" \in made

C25_Witness ==
    /\ mpc = "walk" /\ Len(stack) = 2 /\ Top.dir = "/d" /\ Top.pc = "upload"
    /\ made = {"/", "/d"} /\ cur = 2 /\ partReq[2][1] = 1

\* C26: the listing of a directory is fetched at most once in a run, before
\* the first entry of the directory is processed, and the frame of the
\* directory checks every file against that listing: uploadFile is called
\* only for files whose name is not in it.
C26_ListedOnce ==
    /\ \A d \in Dirs : Len(listing[d]) <= 1
    /\ \A k \in 1..Len(stack) :
        IF stack[k].pc \in {"enter", "list"}
        THEN stack[k].idx = 1 /\ listing[stack[k].dir] = << >>
        ELSE listing[stack[k].dir] = << stack[k].files >>
    /\ \A f \in Files :
        hist[f] # "none" =>
            (listing[FileDir(f)] # << >> /\ FileName(f) \notin listing[FileDir(f)][1])

C26_Witness ==
    /\ mpc = "complete" /\ crashed = "no" /\ run = 1
    /\ listing["/"] = << {"e"} >> /\ listing["/d"] = << {} >>
    /\ hist[1] = "finalized" /\ hist[2] = "finalized" /\ hist[3] = "none"

\* C28 (as claimed): a list call that ends in a fatal failure hands an error
\* to its caller and does not end the process with a nil pointer
\* dereference, also when its last attempt got no response.
C28_Original ==
    crashed # "nilptr"

\* C29: every upload request and every delete-session request issued for a
\* file carries the path made of the file's name, its destination and its
\* size, which is the path uploadFile computed at its start.
ExpectedSession(f) == << "/api/uploads", FileName(f), FileDir(f), fileSize[f] >>

LetterCases(lo, up) == {<< a, b >> : a \in {lo[1], up[1]}, b \in {lo[2], up[2]}}
ClaimedMultipliers ==
    {[unit |-> LetterCases(<< "k", "b" >>, << "K", "B" >>), mult |-> << 1024 >>],
     [unit |-> LetterCases(<< "m", "b" >>, << "M", "B" >>), mult |-> << 1024, 1024 >>],
     [unit |-> LetterCases(<< "g", "b" >>, << "G", "B" >>), mult |-> << 1000, 1024, 1024 >>]}
IsInteger(str) ==
    /\ str # << >>
    /\ \A k \in 1..Len(str) : IsDigit(str[k])
    /\ Len(str) > 1 => str[1] # "0"
ExactBytes(number, mult) ==
    [bytes |-> [neg |-> FALSE, mag |-> BigProduct(BigFromDigits(number), mult)],
     err |-> "none"]

C22_Original ==
    \A k \in 1..Len(parsed) :
        /\ parsed[k] = parsed[1]
        /\ \A c \in ClaimedMultipliers : \A u \in c.unit : \A h \in 1..Len(sizeStr) :
            (IsInteger(SubSeq(sizeStr, 1, h)) /\ SubSeq(sizeStr, h + 1, Len(sizeStr)) = u)
                => (parsed[k] = ExactBytes(SubSeq(sizeStr, 1, h), c.mult))

\* C23 (as claimed): the size parser returns a byte count without an error
\* for every string made of a number and one of the units KB, MB, GB, bytes,
\* kilobyte(s), megabyte(s), gigabyte(s), and an error with no byte count
\* for every other string.
IsDecimal(str) ==
    LET n1 == DigitRun(str, 1)
    IN /\ n1 > 0
       /\ \/ n1 = Len(str)
          \/ /\ n1 + 1 < Len(str)
             /\ str[n1 + 1] = "."
             /\ DigitRun(str, n1 + 2) = Len(str) - n1 - 1
ClaimedUnits ==
    {<< "k", "b" >>, << "m", "b" >>, << "g", "b" >>, << "b", "y", "t", "e", "s" >>,
     << "k", "i", "l", "o", "b", "y", "t", "e" >>,
     << "k", "i", "l", "o", "b", "y", "t", "e", "s" >>,
     << "m", "e", "g", "a", "b", "y", "t", "e" >>,
     << "m", "e", "g", "a", "b", "y", "t", "e", "s" >>,
     << "g", "i", "g", "a", "b", "y", "t", "e" >>,
     << "g", "i", "g", "a", "b", "y", "t", "e", "s" >>}
ClaimedForm(str) ==
    \E k \in 1..Len(str) : \E j \in k..Len(str) :
        /\ IsDecimal(SubSeq(str, 1, k))
        /\ \A b \in (k + 1)..j : str[b] = " "
        /\ ToLower(SubSeq(str, j + 1, Len(str))) \in ClaimedUnits

C23_Original ==
    \A k \in 1..Len(parsed) :
        IF ClaimedForm(sizeStr)
        THEN parsed[k].err = "none"
        ELSE parsed[k].err # "none" /\ parsed[k].bytes = NoBytes

\* C27 (as claimed): list asks for pages of 500 entries, hands to each
\* request the next-page token of the page before it (the empty token at
\* first), stops at the first page whose next-page token is empty, returns
\* the entries of all pages in page order, and returns an error and no
\* entries when a page fails.
PrevToken(k) ==
    LET before == {j \in 1..(k - 1) : reqs[j].res = "ok"}
    IN IF before = {} THEN ""
       ELSE reqs[CHOOSE j \in before : \A h \in before : h <= j].page.next
RECURSIVE ConcatPages(_)
ConcatPages(rs) ==
    IF rs = << >> THEN << >>
    ELSE IF Head(rs).res = "ok" THEN Head(rs).page.files \o ConcatPages(Tail(rs))
    ELSE ConcatPages(Tail(rs))
PageFailed == \E k \in 1..Len(reqs) : reqs[k].res = "err"
ListPages ==
    /\ \A k \in 1..Len(reqs) : reqs[k].perPage = 500 /\ reqs[k].token = PrevToken(k)
    /\ \A k \in 1..(Len(reqs) - 1) : ~(reqs[k].res = "ok" /\ reqs[k].page.next = "")
    /\ (lpc = "ret" /\ ~PageFailed)
        => /\ reqs[Len(reqs)].res = "ok" /\ reqs[Len(reqs)].page.next = ""
           /\ lret = [files |-> ConcatPages(reqs), err |-> "none"]
    /\ (lpc = "ret" /\ PageFailed) => (lret.err # "none" /\ lret.files = << >>)

C27_Original ==
    /\ ListPages
    /\ PageFailed => crashed = "no"

\* C32 (as claimed): uploadFile returns a nil error only if the finalize
\* request of the file was issued and succeeded; a call that leaves the
\* file unregistered returns a non-nil error.
ErrorReturns == {"open_err", "incomplete_err", "finalize_err", "cleanup_err"}

C32_Original ==
    (cur # 0 /\ upc = "ret" /\ ret \notin ErrorReturns)
        => (hist[cur] = "finalized" /\ finLog # << >>)

\* C31 (as claimed): with numWorkers >= 1, answered requests and fair
\* scheduling, every call of uploadFile returns: the dispatch loop does not
\* stay blocked on the semaphore, no part goroutine stays blocked on its
\* send, and the loop over the results ends.
C31_Original ==
    (upc = "begin") ~> (upc = "ret")

\* C33 (as claimed): when the listing of a directory could not be fetched,
\* no file of that directory is uploaded, none of its subdirectories is
\* created or visited, and the walk of the parent directory goes on with
\* the entry after the directory.
SubDirs(d) == {ReadDir(d)[k].sub : k \in {h \in 1..Len(ReadDir(d)) : ReadDir(d)[h].isDir}}
Visited(d) == listing[d] # << >> \/ d \in listErr \/ \E k \in 1..Len(stack) : stack[k].dir = d
ParentGoesOn(d) ==
    \A k \in 1..Len(stack) : \A h \in 1..Len(ReadDir(stack[k].dir)) :
        ReadDir(stack[k].dir)[h].sub = d => (stack[k].idx > h /\ stack[k].pc # "call")
ListFailedSkips ==
    \A d \in listErr :
        /\ \A f \in Files : FileDir(f) = d => (~Requested(f) /\ cur # f)
        /\ \A e \in SubDirs(d) : e \notin made /\ ~Visited(e)

HasParent(d) == \E e \in Dirs : d \in SubDirs(e)

C33_Original ==
    /\ ListFailedSkips
    /\ \A d \in listErr : HasParent(d) => (crashed # "nilptr" /\ ParentGoesOn(d))

====
